---- MODULE Spec2Model ----
(***************************************************************************)
(* FastSLAM particle filter of src/src/SLAM/fast_slam.py.                  *)
(*                                                                         *)
(* Numbers.  Angles are integers counting quarter turns, so math.pi is     *)
(* PiUnits and cos/sin of every modelled angle is -1, 0 or 1.  Positions   *)
(* and covariance entries are integers.  Weights, draws and cumulative     *)
(* weights are exact rationals <<num, den>> (den > 0, lowest terms).       *)
(*                                                                         *)
(* Memory.  A Particle object is heap[id] = [X, LP, weight], where X and   *)
(* LP name the numpy buffers bufX[..] and bufLP[..] the object refers to,  *)
(* so that two particles sharing one buffer is a state the model can be    *)
(* in.  particles is the list the filter holds.                            *)
(***************************************************************************)
EXTENDS Integers, Sequences, FiniteSets

VARIABLES particles, heap, bufX, bufLP, err, cursor, last

vars == <<particles, heap, bufX, bufLP, err, cursor, last>>

-----------------------------------------------------------------------------
(* Bounds of the model *)

NumParticles == 3       \* particles in the set (p_n)
NumLandmarks == 3       \* landmark_number handed to every Particle
MaxBatch == 1           \* observations in one batch z
MaxCoord == 2           \* |x|, |y| of a pose in the motion specification

(* Program constants *)

PiUnits == 2            \* math.pi, in quarter turns
RS == 3                 \* len(initial_X): x, y, yaw
LS == 2                 \* landmark_size
ThresholdInv == 100     \* the 0.01 of update_one_landmark is 1/ThresholdInv

-----------------------------------------------------------------------------
(* Integer and rational arithmetic *)

Abs(a) == IF a < 0 THEN -a ELSE a

Max(a, b) == IF a < b THEN b ELSE a

Min(a, b) == IF a < b THEN a ELSE b

RECURSIVE GCD(_, _)
GCD(a, b) == IF b = 0 THEN a ELSE GCD(b, a % b)

Rat(n, d) ==
    LET s == IF d < 0 THEN -1 ELSE 1
        g == GCD(Abs(n), Abs(d))
    IN  <<(s * n) \div g, (s * d) \div g>>

Zero == <<0, 1>>

One == <<1, 1>>

RAdd(a, b) == Rat(a[1] * b[2] + b[1] * a[2], a[2] * b[2])

RMul(a, b) == Rat(a[1] * b[1], a[2] * b[2])

RDiv(a, b) == Rat(a[1] * b[2], a[2] * b[1])

RLess(a, b) == a[1] * b[2] < b[1] * a[2]

-----------------------------------------------------------------------------
(* Geometry *)

\* math.cos and math.sin of an angle given in quarter turns
Cos(a) == LET r == a % 4 IN IF r = 0 THEN 1 ELSE IF r = 2 THEN -1 ELSE 0

Sin(a) == LET r == a % 4 IN IF r = 1 THEN 1 ELSE IF r = 3 THEN -1 ELSE 0

\* the first loop of normalize: while angle > math.pi: angle -= 2 * math.pi
RECURSIVE normalizeDown(_)
normalizeDown(angle) ==
    IF angle > PiUnits THEN normalizeDown(angle - 2 * PiUnits) ELSE angle

\* the second loop: while angle < -math.pi: angle += math.pi * 2
RECURSIVE normalizeUp(_)
normalizeUp(angle) ==
    IF angle < -PiUnits THEN normalizeUp(angle + 2 * PiUnits) ELSE angle

\* a normalize that forgets the second loop
normalizeNoUp(angle) == normalizeDown(angle)

normalize(angle) == normalizeUp(normalizeDown(angle))

-----------------------------------------------------------------------------
(* numpy arrays.  X is the (RS + LS * n_landmark) x 1 column, kept as a    *)
(* sequence; LP is the (LS * n_landmark) x LS matrix, kept as a sequence   *)
(* of rows.  Python positions are 0-based, and negative ones count back    *)
(* from the end.                                                           *)

Mat2(a, b, c, d) == <<<<a, b>>, <<c, d>>>>

ZeroCov == Mat2(0, 0, 0, 0)

MatMul(A, B) ==
    Mat2(A[1][1] * B[1][1] + A[1][2] * B[2][1], A[1][1] * B[1][2] + A[1][2] * B[2][2],
         A[2][1] * B[1][1] + A[2][2] * B[2][1], A[2][1] * B[1][2] + A[2][2] * B[2][2])

Transpose(A) == Mat2(A[1][1], A[2][1], A[1][2], A[2][2])

Det(A) == A[1][1] * A[2][2] - A[1][2] * A[2][1]

\* R = np.matrix(np.diag([0.1, np.radians(1)])): a positive diagonal, in model units
R == Mat2(1, 0, 0, 1)

\* a[i] for one integer position: the 0-based position read, or -1 for IndexError
PyIndex(i, len) ==
    LET k == IF i < 0 THEN i + len ELSE i
    IN  IF k >= 0 /\ k < len THEN k ELSE -1

\* where a slice bound lands: negative bounds count from the end, all are clipped
SliceBound(b, len) == IF b < 0 THEN Max(b + len, 0) ELSE Min(b, len)

SliceStart(a, len) == SliceBound(a, len)

SliceCount(a, b, len) == Max(0, SliceBound(b, len) - SliceBound(a, len))

\* arr[a:b]
Slice(arr, a, b) ==
    SubSeq(arr, SliceStart(a, Len(arr)) + 1, SliceStart(a, Len(arr)) + SliceCount(a, b, Len(arr)))

\* arr[a:b] = v, for a slice of exactly two places
SliceAssign(arr, a, b, v) ==
    LET s == SliceStart(a, Len(arr))
    IN  [arr EXCEPT ![s + 1] = v[1], ![s + 2] = v[2]]

-----------------------------------------------------------------------------
(* Particle.  The operators below work on the value of one particle,       *)
(* pv = [X, LP, weight, err, log]: err is the exception that ended the     *)
(* call ("none" while it runs), log the branch each observation took.      *)

NewX(initial_X) == initial_X \o [k \in 1..(LS * NumLandmarks) |-> 0]

NewLP == [k \in 1..(LS * NumLandmarks) |-> <<0, 0>>]

\* an observation is z = <<d, theta, label>>
lm_id(z) == z[3]

\* X_L of _add_landmark and _compute_weight
X_L(X, z) == <<X[1] + z[1] * Cos(z[2]), X[2] + z[1] * Sin(z[2])>>

_get_nth_landmark_state(X, n) == Slice(X, RS + n * LS, RS + n * LS + LS)

_get_nth_landmark_covariance(LP, n) == Slice(LP, n * LS, n * LS + LS)

Raise(pv, e) == [pv EXCEPT !.err = e]

Logged(pv, z, branch, applied, factor) ==
    [pv EXCEPT !.log = Append(@, [id |-> lm_id(z), branch |-> branch,
                                  applied |-> applied, factor |-> factor])]

\* dv = dt * v and dw = dt * delta of the perturbed control u_p
_move_motion(X, dv, dw) ==
    LET x == X[1] + Cos(X[3]) * dv
        y == X[2] + Sin(X[3]) * dv
        yaw == X[3] + dw
    IN  [X EXCEPT ![1] = x, ![2] = y, ![3] = normalize(yaw)]

\* The values num / den of _compute_weight can take: a Gaussian density is a
\* non-negative real that the model does not compute; 0 is the underflow of exp.
LikelihoodValues == {Zero, <<1, 4>>}

\* The Kalman gain is computed with sqrt, atan2 and a matrix inverse.  The model
\* keeps the two ends of where K * residual can put the mean: "none" leaves it
\* where it is, "full" moves it onto the observed point.  R being positive
\* definite, P - K * Hlm * P is smaller than P and still invertible; the model
\* keeps the entries of P for it.
Gains == {"none", "full"}

\* the test of update_one_landmark: abs(self.X[lm_id * LS + RS, 0]) < 0.01
BelowThreshold(v) == Abs(v) * ThresholdInv < 1

\* an _add_landmark that forgets the pose block: the mean goes to lm_id * LS
_add_landmark_at_block(pv, z) ==
    LET start_pos == lm_id(z) * LS
        G_r == Mat2(Cos(z[2]), -z[1] * Sin(z[2]), Sin(z[2]), z[1] * Cos(z[2]))
        P == MatMul(MatMul(G_r, R), Transpose(G_r))
    IN  IF SliceCount(start_pos, start_pos + LS, Len(pv.X)) # LS
        THEN Raise(pv, "ValueError")
        ELSE LET stored == [pv EXCEPT !.X = SliceAssign(@, start_pos, start_pos + LS, X_L(pv.X, z))]
             IN  IF SliceCount(start_pos, start_pos + LS, Len(pv.LP)) # LS
                 THEN Raise(stored, "ValueError")
                 ELSE [stored EXCEPT !.LP = SliceAssign(@, start_pos, start_pos + LS, P)]

\* _add_landmark: the mean is stored first, the covariance after it
_add_landmark(pv, z) ==
    LET start_pos == lm_id(z) * LS + RS
        G_r == Mat2(Cos(z[2]), -z[1] * Sin(z[2]), Sin(z[2]), z[1] * Cos(z[2]))
        P == MatMul(MatMul(G_r, R), Transpose(G_r))
        cov_pos == lm_id(z) * LS
    IN  IF SliceCount(start_pos, start_pos + LS, Len(pv.X)) # LS
        THEN Raise(pv, "ValueError")
        ELSE LET stored == [pv EXCEPT !.X = SliceAssign(@, start_pos, start_pos + LS, X_L(pv.X, z))]
             IN  IF SliceCount(cov_pos, cov_pos + LS, Len(pv.LP)) # LS
                 THEN Raise(stored, "ValueError")
                 ELSE [stored EXCEPT !.LP = SliceAssign(@, cov_pos, cov_pos + LS, P)]

\* _compute_weight: the particle values it can leave
_compute_weight(pv, z) ==
    LET state == _get_nth_landmark_state(pv.X, lm_id(z))
        P == _get_nth_landmark_covariance(pv.LP, lm_id(z))
    IN  IF Len(state) = 0
        THEN {Raise(pv, "ValueError")}                \* X_L - state cannot broadcast
        ELSE IF Len(P) # LS \/ Det(P) = 0
        THEN {Logged(pv, z, "tracked", FALSE, One)}   \* LinAlgError, caught: return
        ELSE IF Det(P) < 0
        THEN {Raise(pv, "ValueError")}                \* math.sqrt of a negative
        ELSE {Logged([pv EXCEPT !.weight = RMul(@, f)], z, "tracked", TRUE, f) :
                f \in LikelihoodValues}

\* lines 222-229 of update_one_landmark: the EKF correction of one landmark
Correct(pv, z) ==
    LET n == lm_id(z)
        lm_real == _get_nth_landmark_state(pv.X, n)
        cov == _get_nth_landmark_covariance(pv.LP, n)
        start_pos == n * LS
    IN  IF Len(lm_real) # LS
        THEN {Raise(pv, "IndexError")}
        ELSE IF lm_real[1] = pv.X[1] /\ lm_real[2] = pv.X[2]
        THEN {Raise(pv, "nan")}                       \* distance 0: 0/0 in the Jacobian
        ELSE IF Len(cov) # LS
        THEN {Raise(pv, "ValueError")}                \* Hlm * cov: shapes do not match
        ELSE {[pv EXCEPT
                 !.X = SliceAssign(@, RS + start_pos, RS + start_pos + LS,
                                   IF g = "none" \/ cov = ZeroCov THEN lm_real ELSE X_L(pv.X, z)),
                 !.LP = SliceAssign(@, start_pos, start_pos + LS, cov)] :
                g \in Gains}

\* update_one_landmark: the particle values one observation can leave
update_one_landmark(pv, z) ==
    LET k == PyIndex(lm_id(z) * LS + RS, Len(pv.X))
    IN  IF k < 0
        THEN {Raise(pv, "IndexError")}
        ELSE IF BelowThreshold(pv.X[k + 1])
        THEN {_add_landmark(Logged(pv, z, "add", FALSE, One), z)}
        ELSE UNION {IF w.err # "none" THEN {w} ELSE Correct(w, z) :
                      w \in _compute_weight(pv, z)}

\* the loop of Particle.update over the rows of z, from row i on
RECURSIVE UpdateFrom(_, _, _)
UpdateFrom(pvs, z, i) ==
    IF i > Len(z)
    THEN pvs
    ELSE UpdateFrom(UNION {IF w.err # "none" THEN {w} ELSE update_one_landmark(w, z[i]) :
                             w \in pvs}, z, i + 1)

\* a Particle.update that keeps the weight it finds
update_no_reset(pv, z) == UpdateFrom({[pv EXCEPT !.log = <<>>, !.err = "none"]}, z, 1)

\* Particle.update
update(pv, z) ==
    UpdateFrom({[pv EXCEPT !.weight = One, !.log = <<>>, !.err = "none"]}, z, 1)

-----------------------------------------------------------------------------
(* The particle set *)

\* the value of the Particle object o
Value(o) ==
    [X |-> bufX[heap[o].X], LP |-> bufLP[heap[o].LP], weight |-> heap[o].weight,
     err |-> "none", log |-> <<>>]

RECURSIVE WeightsTo(_, _)
WeightsTo(ps, k) == IF k = 0 THEN <<>> ELSE Append(WeightsTo(ps, k - 1), heap[ps[k]].weight)

\* weights.append(particle.weight) for every particle of the list
Weights(ps) == WeightsTo(ps, Len(ps))

RECURSIVE SumTo(_, _)
SumTo(w, k) == IF k = 0 THEN Zero ELSE RAdd(SumTo(w, k - 1), w[k])

Sum(w) == SumTo(w, Len(w))

\* p.weight *= ws for the first k particles
RECURSIVE Scaled(_, _, _)
Scaled(w, ws, k) == IF k = 0 THEN <<>> ELSE Append(Scaled(w, ws, k - 1), RMul(w[k], ws))

\* p.weight = 1. / len(particles) for the first k particles
RECURSIVE Uniform(_, _)
Uniform(n, k) == IF k = 0 THEN <<>> ELSE Append(Uniform(n, k - 1), Rat(1, n))

\* a normalize_particles without the except branch: the weights stay as they were
normalize_particles_no_fallback(w) ==
    IF Sum(w) = Zero THEN w ELSE Scaled(w, RDiv(One, Sum(w)), Len(w))

\* normalize_particles, on the weights of the list: 1. / ws raises
\* ZeroDivisionError for ws = 0, and the except branch sets 1. / len(particles)
normalize_particles(w) ==
    IF Sum(w) = Zero THEN Uniform(Len(w), Len(w)) ELSE Scaled(w, RDiv(One, Sum(w)), Len(w))

\* a make_copy that hands its own X to the copy (o.X = self.X)
make_copy_shared(self, fresh) == [X |-> self.X, LP |-> fresh, weight |-> self.weight]

\* make_copy: the new object, whose X and LP are buffers of its own
make_copy(self, fresh) == [X |-> fresh, LP |-> fresh, weight |-> self.weight]

\* (weights * weights.T)[0, 0]
RECURSIVE SumSquaresTo(_, _)
SumSquaresTo(w, k) == IF k = 0 THEN Zero ELSE RAdd(SumSquaresTo(w, k - 1), RMul(w[k], w[k]))

SumSquares(w) == SumSquaresTo(w, Len(w))

\* Neff = 1. / (s + 1e-30).  A double s >= 1 / count swallows the 1e-30, so Neff
\* is 1 / s; for s = 0 it is 1e30, above every count.
NeffBelow(s, half) == s # Zero /\ RLess(RDiv(One, s), half)

\* a gate that halves the count as an integer (len(particles) // 2)
NeedsResampleFloorHalf(w) == NeffBelow(SumSquares(w), <<Len(w) \div 2, 1>>)

\* Neff < len(particles) / 2
NeedsResample(w) == NeffBelow(SumSquares(w), Rat(Len(w), 2))

\* The rounding of np.cumsum: the last sum of weights that add up to 1 is 1 or
\* a little less
Drifts == {Zero, <<-1, 1000>>}

RECURSIVE CumSumTo(_, _)
CumSumTo(w, k) == IF k = 0 THEN <<>> ELSE Append(CumSumTo(w, k - 1), SumTo(w, k))

cumsum(w, drift) == [CumSumTo(w, Len(w)) EXCEPT ![Len(w)] = RAdd(@, drift)]

\* a wcum that keeps the last sum np.cumsum gave
wcum_no_fixup(w, drift) == cumsum(w, drift)

\* wcum = np.cumsum(weights); wcum[0, -1] = 1
wcum_of(w, drift) == [cumsum(w, drift) EXCEPT ![Len(w)] = One]

\* random.uniform(0, 1.0)
Draws == {Zero, <<9, 10>>, One}

\* while wcum[0, ind] < resample_id[i]: ind += 1;  -1 stands for IndexError
RECURSIVE Scan(_, _, _)
Scan(wcum, draw, ind) ==
    IF ind >= Len(wcum) THEN -1
    ELSE IF RLess(wcum[ind + 1], draw) THEN Scan(wcum, draw, ind + 1)
    ELSE ind

RECURSIVE IndexesTo(_, _, _)
IndexesTo(wcum, draws, k) ==
    IF k = 0 THEN <<>> ELSE Append(IndexesTo(wcum, draws, k - 1), Scan(wcum, draws[k], 0))

Indexes(wcum, draws) == IndexesTo(wcum, draws, Len(draws))

\* the ids no object of the list uses, smallest first
RECURSIVE FreeIds(_, _)
FreeIds(used, from) ==
    IF from > 2 * NumParticles - 1 THEN <<>>
    ELSE IF from \in used THEN FreeIds(used, from + 1)
    ELSE <<from>> \o FreeIds(used, from + 1)

-----------------------------------------------------------------------------
(* State machine *)

NoLast ==
    [op |-> "init", who |-> 0, z |-> <<>>, log |-> <<>>, raw |-> 0,
     ws |-> Zero, replaced |-> FALSE, draws |-> <<>>, wcum |-> <<>>, indexes |-> <<>>]

\* a Particle as __init__ leaves it
NewParticle(initial_X, weight) == [X |-> NewX(initial_X), LP |-> NewLP, weight |-> weight]

\* particles = [Particle(initial_X, landmark_size, n, weight) for i in range(p_n)],
\* here with the contents given
InitSet(ps) ==
    /\ particles = [i \in 1..Len(ps) |-> i - 1]
    /\ heap = [o \in 0..(Len(ps) - 1) |-> [X |-> o, LP |-> o, weight |-> ps[o + 1].weight]]
    /\ bufX = [o \in 0..(Len(ps) - 1) |-> ps[o + 1].X]
    /\ bufLP = [o \in 0..(Len(ps) - 1) |-> ps[o + 1].LP]
    /\ err = "none"
    /\ cursor = 0
    /\ last = NoLast

\* dt * v and dt * delta of a perturbed control
Steps == {0, 1}

Turns == -5..5

\* Particle.predict of the i-th particle of the list
ParticlePredict(i, dv, dw) ==
    LET o == particles[i]
        X == _move_motion(bufX[heap[o].X], dv, dw)
    IN  /\ err = "none"
        /\ Abs(X[1]) <= MaxCoord /\ Abs(X[2]) <= MaxCoord
        /\ bufX' = [bufX EXCEPT ![heap[o].X] = X]
        /\ last' = [NoLast EXCEPT !.op = "predict", !.who = i, !.raw = bufX[heap[o].X][3] + dw]
        /\ UNCHANGED <<particles, heap, bufLP, err, cursor>>

\* Particle.update of the i-th particle of the list with the batch z
ParticleUpdate(i, z) ==
    LET o == particles[i]
    IN  /\ err = "none"
        /\ \E w \in update(Value(o), z) :
              /\ heap' = [heap EXCEPT ![o].weight = w.weight]
              /\ bufX' = [bufX EXCEPT ![heap[o].X] = w.X]
              /\ bufLP' = [bufLP EXCEPT ![heap[o].LP] = w.LP]
              /\ err' = w.err
              /\ last' = [NoLast EXCEPT !.op = "update", !.who = i, !.z = z, !.log = w.log]
        /\ UNCHANGED particles

RECURSIVE WeightsOf(_, _)
WeightsOf(cs, k) == IF k = 0 THEN <<>> ELSE Append(WeightsOf(cs, k - 1), cs[k].obj.weight)

WithWeights(ps, w) ==
    [o \in DOMAIN heap |->
        IF \E i \in 1..Len(ps) : ps[i] = o
        THEN [heap[o] EXCEPT !.weight = w[CHOOSE i \in 1..Len(ps) : ps[i] = o]]
        ELSE heap[o]]

\* normalize_particles(particles)
NormalizeParticles ==
    /\ err = "none"
    /\ heap' = WithWeights(particles, normalize_particles(Weights(particles)))
    /\ last' = [NoLast EXCEPT !.op = "normalize", !.ws = Sum(Weights(particles))]
    /\ UNCHANGED <<particles, bufX, bufLP, err>>

\* new_particles.append(particles[ind].make_copy()) for the first k indexes; the
\* weights w are those the first normalize_particles left in the objects
RECURSIVE Copies(_, _, _, _)
Copies(w, indexes, fresh, k) ==
    IF k = 0 THEN <<>>
    ELSE Append(Copies(w, indexes, fresh, k - 1),
                [src |-> heap[particles[indexes[k] + 1]],
                 obj |-> make_copy([heap[particles[indexes[k] + 1]] EXCEPT
                                       !.weight = w[indexes[k] + 1]], fresh[k])])

\* the second half of resample: the list is replaced by copies
Replace(w, wcum, draws, indexes) ==
    \E fresh \in {FreeIds({particles[i] : i \in 1..Len(particles)}, 0)} :
    \E cs \in {Copies(w, indexes, fresh, Len(particles))} :
    \E nw \in {normalize_particles(WeightsOf(cs, Len(cs)))} :
       /\ particles' = SubSeq(fresh, 1, Len(particles))
       /\ heap' = [o \in {fresh[i] : i \in 1..Len(cs)} |->
                     LET i == CHOOSE j \in 1..Len(cs) : fresh[j] = o
                     IN  [cs[i].obj EXCEPT !.weight = nw[i]]]
       /\ bufX' = [b \in {cs[i].obj.X : i \in 1..Len(cs)} |->
                     IF \E j \in 1..Len(cs) : fresh[j] = b
                     THEN bufX[cs[CHOOSE j \in 1..Len(cs) : fresh[j] = b].src.X]
                     ELSE bufX[b]]
       /\ bufLP' = [b \in {cs[i].obj.LP : i \in 1..Len(cs)} |->
                     IF \E j \in 1..Len(cs) : fresh[j] = b
                     THEN bufLP[cs[CHOOSE j \in 1..Len(cs) : fresh[j] = b].src.LP]
                     ELSE bufLP[b]]
       /\ last' = [NoLast EXCEPT !.op = "resample", !.replaced = TRUE, !.draws = draws,
                                 !.wcum = wcum, !.indexes = indexes]
       /\ UNCHANGED err

\* particles = resample(particles)
Resample(draws) ==
    /\ err = "none"
    /\ \E w \in {normalize_particles(Weights(particles))} :
         IF ~NeedsResample(w)
         THEN /\ heap' = WithWeights(particles, w)
              /\ last' = [NoLast EXCEPT !.op = "resample"]
              /\ UNCHANGED <<particles, bufX, bufLP, err>>
         ELSE \E wcum \in {wcum_of(w, drift) : drift \in Drifts} :
              \E indexes \in {Indexes(wcum, draws)} :
                IF \E i \in 1..Len(indexes) : indexes[i] < 0
                THEN /\ heap' = WithWeights(particles, w)
                     /\ err' = "IndexError"
                     /\ last' = [NoLast EXCEPT !.op = "resample", !.draws = draws,
                                               !.wcum = wcum, !.indexes = indexes]
                     /\ UNCHANGED <<particles, bufX, bufLP>>
                ELSE Replace(w, wcum, draws, indexes)

-----------------------------------------------------------------------------
(* One particle under predict *)

InitMotion == InitSet(<<NewParticle(<<0, 0, 0>>, One)>>)

NextMotion == \E dv \in Steps, dw \in Turns : ParticlePredict(1, dv, dw)

SpecMotion == InitMotion /\ [][NextMotion]_vars

(* One particle under update *)

\* batches of at most MaxBatch observations out of obs
Batches(obs) == UNION {[1..k -> obs] : k \in 0..MaxBatch}

\* <<d, theta, label>>: labels inside and outside 0..NumLandmarks-1
Observations ==
    {<<2, 0, 0>>, <<5, 1, 0>>, <<2, 0, 1>>, <<2, 0, -3>>, <<2, 0, -1>>, <<2, 0, NumLandmarks>>}

\* the poses the particle is created at
Poses == {<<0, 0, 0>>, <<1, -1, 1>>}

InitUpdate == \E pose \in Poses : InitSet(<<NewParticle(pose, One)>>)

NextUpdate == \E z \in Batches(Observations) : ParticleUpdate(1, z) /\ UNCHANGED cursor

SpecUpdate == InitUpdate /\ [][NextUpdate]_vars

(* The particle set: update(particles, z, R) updates every particle in turn   *)
(* and resamples; cursor counts the particles the loop has updated.  Between *)
(* two loops normalize_particles and resample are also called on their own.  *)

FilterBatches == {<<>>, <<<<1, 0, 0>>>>}

\* the weights the particles are created with
InitWeights == {Zero, <<1, 4>>, One}

\* the particles of main, all created at [0, 0, 0], after they have seen landmark 0
\* once, each with a weight of its own
Init ==
    \E w \in [1..NumParticles -> InitWeights] :
        InitSet([i \in 1..NumParticles |->
                    _add_landmark(NewParticle(<<0, 0, 0>>, w[i]), <<2, 0, 0>>)])

UpdateStep ==
    /\ cursor < Len(particles)
    /\ \E z \in (IF cursor = 0 THEN FilterBatches ELSE {last.z}) : ParticleUpdate(cursor + 1, z)
    /\ cursor' = cursor + 1

NormalizeStep ==
    /\ cursor \in {0, Len(particles)}
    /\ NormalizeParticles
    /\ UNCHANGED cursor

ResampleStep ==
    /\ cursor \in {0, Len(particles)}
    /\ \E draws \in [1..Len(particles) -> Draws] : Resample(draws)
    /\ cursor' = 0

Next == UpdateStep \/ NormalizeStep \/ ResampleStep

Spec == Init /\ [][Next]_vars

-----------------------------------------------------------------------------
(* Properties *)

\* the value of the i-th particle of the list, before and after a step
Before(i) == [X |-> bufX[heap[particles[i]].X], LP |-> bufLP[heap[particles[i]].LP],
              weight |-> heap[particles[i]].weight]

After(i) == [X |-> bufX'[heap'[particles'[i]].X], LP |-> bufLP'[heap'[particles'[i]].LP],
             weight |-> heap'[particles'[i]].weight]

Heading == bufX[heap[particles[1]].X][3]

\* the stored mean of landmark slot k in X
SlotMean(X, k) == <<X[RS + k * LS + 1], X[RS + k * LS + 2]>>

\* the magnitude of the stored mean of slot k is below 0.01
Uninitialized(X, k) ==
    (SlotMean(X, k)[1] * SlotMean(X, k)[1] + SlotMean(X, k)[2] * SlotMean(X, k)[2])
        * ThresholdInv * ThresholdInv < 1

ValidId(k) == k >= 0 /\ k < NumLandmarks

-----------------------------------------------------------------------------
(* Particle.update, on one particle *)

RECURSIVE Product(_, _)
\* the product of the likelihood factors the first k entries of a log applied
Product(log, k) ==
    IF k = 0 THEN One
    ELSE RMul(Product(log, k - 1), IF log[k].applied THEN log[k].factor ELSE One)

\* every observation of the batch z names a valid slot of its own that X holds uninitialized
FirstSightings(X, z) ==
    /\ Len(z) > 0
    /\ \A i \in 1..Len(z) :
          /\ ValidId(lm_id(z[i]))
          /\ Uninitialized(X, lm_id(z[i]))
          /\ \A j \in 1..Len(z) : j # i => lm_id(z[j]) # lm_id(z[i])

(* C5: an update whose batch holds only first sightings (each slot           *)
(* uninitialized before the call) completes, stores in each slot the point   *)
(* (x + range * cos(bearing), y + range * sin(bearing)) taken from the pose  *)
(* of the particle, applies no likelihood factor and leaves weight 1.        *)
C5_FirstSighting ==
    [][(last'.op = "update" /\ FirstSightings(Before(1).X, last'.z)) =>
          /\ err' = "none"
          /\ After(1).weight = One
          /\ Len(last'.log) = Len(last'.z)
          /\ \A i \in 1..Len(last'.z) :
                /\ SlotMean(After(1).X, lm_id(last'.z[i])) =
                      <<Before(1).X[1] + last'.z[i][1] * Cos(last'.z[i][2]),
                        Before(1).X[2] + last'.z[i][1] * Sin(last'.z[i][2])>>
                /\ last'.log[i].branch = "add"
                /\ ~last'.log[i].applied
          /\ \A c \in 1..RS : After(1).X[c] = Before(1).X[c]]_vars

C5_Witness ==
    /\ last.op = "update" /\ err = "none"
    /\ last.z = <<<<2, 0, 1>>>>
    /\ last.log[1].branch = "add"
    /\ Before(1).X[1] = 1 /\ Before(1).X[2] = -1
    /\ SlotMean(Before(1).X, 1) = <<3, -1>>
    /\ Before(1).weight = One

(* C6, as claimed: an update whose batch holds a landmark id outside         *)
(* 0..NumLandmarks-1 ends with an error.                                     *)
C6_BadIdFailsFast ==
    (last.op = "update" /\ \E i \in 1..Len(last.z) : ~ValidId(lm_id(last.z[i])))
        => err # "none"

C9_TrackedByMagnitude ==
    [][(/\ last'.op = "update" /\ Len(last'.z) = 1 /\ ValidId(lm_id(last'.z[1]))
        /\ _get_nth_landmark_covariance(Before(1).LP, lm_id(last'.z[1])) # ZeroCov) =>
          /\ Len(last'.log) = 1
          /\ last'.log[1].branch = "add" <=> Uninitialized(Before(1).X, lm_id(last'.z[1]))]_vars

-----------------------------------------------------------------------------
(* The particle set under normalize_particles and resample *)

Count == Len(particles)

RECURSIVE WeightsAfterTo(_)
WeightsAfterTo(k) ==
    IF k = 0 THEN <<>> ELSE Append(WeightsAfterTo(k - 1), heap'[particles'[k]].weight)

\* the weights of the list after a step
WeightsAfter == WeightsAfterTo(Len(particles'))

AllZero(w) == \A i \in 1..Len(w) : w[i] = Zero

\* the buffers the particles of the list hold before a step
BuffersX == {heap[particles[i]].X : i \in 1..Count}

BuffersLP == {heap[particles[i]].LP : i \in 1..Count}

\* no two particles of the list are one object or hold one buffer
NoSharing ==
    \A i, j \in 1..Count :
        i # j => /\ particles[i] # particles[j]
                 /\ heap[particles[i]].X # heap[particles[j]].X
                 /\ heap[particles[i]].LP # heap[particles[j]].LP

(* C2: normalize_particles keeps the number of particles and raises          *)
(* nothing; all-zero weights become 1/count each; weights of positive sum W  *)
(* become weight / W each and sum to 1.                                      *)
C2_Normalize ==
    [][last'.op = "normalize" =>
          /\ Len(particles') = Count /\ Count > 0
          /\ err' = "none"
          /\ (AllZero(Weights(particles)) =>
                \A i \in 1..Count : WeightsAfter[i] = Rat(1, Count))
          /\ (~AllZero(Weights(particles)) =>
                /\ \A i \in 1..Count :
                      WeightsAfter[i] = RDiv(Weights(particles)[i], Sum(Weights(particles)))
                /\ Sum(WeightsAfter) = One)]_vars

C2_Witness ==
    /\ last.op = "normalize" /\ last.ws = Zero /\ err = "none"
    /\ \A i \in 1..Count : heap[particles[i]].weight = Rat(1, Count)

(* C3, as claimed: whatever the weights, resample returns as many particles  *)
(* as it was given and each of them holds buffers that no particle of the    *)
(* input set and no other returned particle holds.                           *)
C3_AlwaysFreshCopies ==
    [][last'.op = "resample" =>
          /\ Len(particles') = Count
          /\ NoSharing'
          /\ \A i \in 1..Count :
                /\ heap'[particles'[i]].X \notin BuffersX
                /\ heap'[particles'[i]].LP \notin BuffersLP]_vars

(* C3, amended: resample returns as many particles as it was given.  When    *)
(* it replaces the set, the i-th returned particle holds, in buffers that    *)
(* no input particle and no other returned particle holds, the X and LP of   *)
(* the input particle at the i-th drawn index; when it does not, it returns  *)
(* the input objects with their own buffers.  No two particles of a set      *)
(* ever share a buffer, and an update of one particle changes no other.      *)
C3_CopiesWhenReplaced ==
    [][/\ NoSharing'
       /\ (last'.op = "resample" /\ err' = "none") =>
             /\ Len(particles') = Count
             /\ IF last'.replaced
                THEN \A i \in 1..Count :
                        /\ After(i).X = Before(last'.indexes[i] + 1).X
                        /\ After(i).LP = Before(last'.indexes[i] + 1).LP
                        /\ heap'[particles'[i]].X \notin BuffersX
                        /\ heap'[particles'[i]].LP \notin BuffersLP
                ELSE \A i \in 1..Count :
                        /\ particles'[i] = particles[i]
                        /\ heap'[particles'[i]].X = heap[particles[i]].X
                        /\ heap'[particles'[i]].LP = heap[particles[i]].LP
       /\ last'.op = "update" =>
             \A j \in 1..Count : j # last'.who => After(j) = Before(j)]_vars

C3_Witness ==
    /\ last.op = "resample" /\ last.replaced /\ err = "none"
    /\ last.indexes[1] = last.indexes[2]
    /\ heap[particles[1]].X # heap[particles[2]].X
    /\ heap[particles[1]].LP # heap[particles[2]].LP
    /\ Before(1).X = Before(2).X
    /\ Before(3).X # Before(1).X

(* C4: resample normalizes the weights and replaces the set exactly when     *)
(* N_eff = 1 / (sum of squares) is below count / 2, that is when             *)
(* count * (sum of squares) exceeds 2.  Otherwise the same objects come      *)
(* back in the same order with the same contents.  All-zero weights are      *)
(* never resampled; one particle holding all the weight among three or       *)
(* more always is.                                                           *)
C4_Gate ==
    [][(last'.op = "resample" /\ err' = "none") =>
          \E w \in {normalize_particles(Weights(particles))} :
             /\ last'.replaced <=> RLess(<<2, 1>>, RMul(<<Count, 1>>, SumSquares(w)))
             /\ ~last'.replaced =>
                   /\ particles' = particles /\ bufX' = bufX /\ bufLP' = bufLP
                   /\ \A i \in 1..Count :
                         /\ heap'[particles[i]].X = heap[particles[i]].X
                         /\ heap'[particles[i]].LP = heap[particles[i]].LP
                         /\ heap'[particles[i]].weight = w[i]
             /\ last'.replaced =>
                   /\ \A i \in 1..Count : \A j \in 1..Count : particles'[i] # particles[j]
                   /\ Len(last'.indexes) = Count
             /\ AllZero(Weights(particles)) => ~last'.replaced
             /\ (Count >= 3 /\ \E i \in 1..Count : w[i] = One) => last'.replaced]_vars

C4_Witness ==
    /\ last.op = "resample" /\ last.replaced /\ err = "none"
    /\ Count >= 3
    /\ last.wcum[1] = Zero /\ last.wcum[2] = One

(* C8, as claimed: when resample has replaced the set, here by particles of  *)
(* positive weight only, every returned particle has weight 1/count.         *)
C8_UniformAfterReplacement ==
    (/\ last.op = "resample" /\ last.replaced /\ err = "none"
     /\ \A i \in 1..Count :
           last.wcum[last.indexes[i] + 1] #
              (IF last.indexes[i] = 0 THEN Zero ELSE last.wcum[last.indexes[i]])) =>
        \A i \in 1..Count : heap[particles[i]].weight = Rat(1, Count)

(* C10: in the replacement branch the last cumulative weight is exactly 1    *)
(* and every draw of [0, 1], 0 and 1 included, is given the first index      *)
(* whose cumulative weight is at least the draw, an index of 0..count-1;     *)
(* the scan raises nothing.                                                  *)
C10_ScanInRange ==
    (last.op = "resample" /\ last.draws # <<>>) =>
        /\ err = "none"
        /\ Len(last.wcum) = Count /\ last.wcum[Count] = One
        /\ Len(last.indexes) = Count
        /\ \A i \in 1..Count :
              /\ last.indexes[i] \in 0..(Count - 1)
              /\ ~RLess(last.wcum[last.indexes[i] + 1], last.draws[i])
              /\ \A k \in 1..last.indexes[i] : RLess(last.wcum[k], last.draws[i])

C10_Witness ==
    /\ last.op = "resample" /\ last.replaced /\ err = "none"
    /\ last.draws[1] = One /\ last.indexes[1] = Count - 1
    /\ last.draws[2] = Zero /\ last.indexes[2] = 0
    /\ last.wcum[Count - 1] # One

====
